---- MODULE Spec2Model ----
(***************************************************************************)
(* A model of the DSME plugin framework, src/modulebase.c: the module      *)
(* registry (modules), the handler registry (callbacks), the message       *)
(* queue (message_queue) and the "currently handling module" slot.         *)
(*                                                                         *)
(* The program is single threaded.  Control is a stack of frames: the      *)
(* framework functions that are suspended in a module callback             *)
(* (module_init, module_fini, a message handler) or in a loop that calls   *)
(* them.  A step of the model is a call of an exported function, or the    *)
(* return of a callback, together with all the framework code that runs    *)
(* until control is in module code again, a message has been handled, or   *)
(* control is back in the caller.  While a callback frame is on top, the   *)
(* module code may call the queueing functions (and module_init may call   *)
(* load_module) before it returns.                                         *)
(*                                                                         *)
(* Pointers to module_t are addresses 1..MaxAddr; malloc hands out the     *)
(* lowest address that is not allocated, so the address of a freed module  *)
(* is used again by a later load when no lower one is free.                *)
(***************************************************************************)
EXTENDS Integers, Sequences, FiniteSets, TLC

VARIABLES
    modules,                    \* GSList* modules: addresses, in list order
    callbacks,                  \* GSList* callbacks: msg_handler_info_t records
    message_queue,              \* GSList* message_queue: queued_msg_t records
    currently_handling_module,  \* const module_t* currently_handling_module
    heap,                       \* the module_t objects, by address
    stack,                      \* suspended framework calls, innermost last
    disp,                       \* the envelope in dispatch and the nodes invoked for it
    unloaded,                   \* addresses left dangling by unload_module
    nloads, nregs,              \* module_t objects allocated / registered directly
    nqueued, npopped,           \* envelopes appended / popped so far
    sock,                       \* the call of the socket layer made in the last step
    ret,                        \* the value the last step's call returned
    kept                        \* the endpoint_t* a module got from endpoint_copy

vars == <<modules, callbacks, message_queue, currently_handling_module, heap,
          stack, disp, unloaded, nloads, nregs, nqueued, npopped, sock, ret,
          kept>>

(***************************************************************************)
(* Bounds of the model.                                                    *)
(***************************************************************************)
MaxAddr  == 2      \* module_t objects allocated at one time
MaxLoads == 2      \* module_t objects allocated in a run
MaxMsgs  == 2      \* envelopes queued in a run
MaxQueued == 3     \* envelopes queued in a run of the queue specification
MaxRegs  == 1      \* direct registrations in a run
MaxDepth == 2      \* load_module calls nested through module_init

(***************************************************************************)
(* Program constants.                                                      *)
(***************************************************************************)
NULL       == 0    \* the null pointer
HeaderSize == 12   \* sizeof(dsmemsg_generic_t): line_size_, size_, type_

Addr == 1 .. MaxAddr
Conns == {1}                    \* dsmesock_connection_t* values
Peers == {1, 2}                 \* the connections of the endpoint specification
Priorities == {5, 9}

(***************************************************************************)
(* What the dynamic loader finds in a module file: whether module_init     *)
(* and module_fini exist, and the message_handlers table up to its         *)
(* terminating null callback.                                              *)
(***************************************************************************)
Entry(t, s, cb) == [msg_type |-> t, msg_size |-> s, callback |-> cb]

ModuleNames == {"a", "b"}

ModuleImage(name) ==
    CASE name = "a" -> [init |-> TRUE,  fini |-> FALSE,
                        handlers |-> <<Entry(16, HeaderSize, "a1")>>]
      [] name = "b" -> [init |-> FALSE, fini |-> TRUE,
                        handlers |-> <<Entry(16, HeaderSize + 1, "b1"),
                                       Entry(16, HeaderSize, "b2"),
                                       Entry(32, HeaderSize, "b3")>>]

(***************************************************************************)
(* struct module_t, and malloc for it.                                     *)
(***************************************************************************)
FreeModule == [alloc |-> FALSE, name |-> "", priority |-> 0]
NewModule(name, priority) == [alloc |-> TRUE, name |-> name, priority |-> priority]

Allocated(hp) == {a \in Addr : hp[a].alloc}

\* malloc(sizeof(module_t)): NULL when no address is left
Malloc(hp) ==
    IF Allocated(hp) = Addr THEN NULL
    ELSE CHOOSE a \in Addr \ Allocated(hp) : \A b \in Addr \ Allocated(hp) : a <= b

(***************************************************************************)
(* struct endpoint_t and the messages of the producers.                    *)
(***************************************************************************)
Endpoint(m, c) == [module |-> m, conn |-> c]

Msg(t, s, l) == [type_ |-> t, size_ |-> s, line_size_ |-> l]
NoMsg == Msg(0, 0, 0)           \* stands for a null message pointer

\* the messages of the life-cycle specification: a null pointer and one
\* well-formed message, without extra bytes
Messages ==
    { NoMsg,
      Msg(16, HeaderSize, HeaderSize) }

WithExtra == {<<msg, 0>> : msg \in Messages}

\* the messages of the dispatch specification
Shapes ==
    { NoMsg,
      Msg(16, HeaderSize, HeaderSize),
      Msg(16, HeaderSize + 1, HeaderSize),     \* shorter than it declares
      Msg(32, HeaderSize, HeaderSize),
      Msg(16, HeaderSize, HeaderSize - 1) }    \* shorter than the header

\* its calls with extra bytes: a message and the number of bytes after it
ShapesWithExtra ==
    { <<NoMsg, 0>>,
      <<Msg(16, HeaderSize, HeaderSize), 0>>,
      <<Msg(16, HeaderSize + 1, HeaderSize), 0>>,
      <<Msg(16, HeaderSize + 1, HeaderSize), 1>>,
      <<Msg(32, HeaderSize, HeaderSize), 1>>,
      <<Msg(16, HeaderSize, HeaderSize - 1), 1>> }

(***************************************************************************)
(* queued_msg_t.  The field g is not program state: it holds the           *)
(* envelope's number (id), the module whose callback made the call (by),   *)
(* the number of the envelope whose handler made the call (during, 0 if    *)
(* none), the number of loaded modules when a module_fini made the call    *)
(* during modulebase_shutdown (fin, 0 otherwise), whether the module that  *)
(* `to` points at has been unloaded (toUnloaded) and whether the module_t  *)
(* that `from.module` points at has been freed (fromFreed).                *)
(***************************************************************************)
Note(id, by, during, fin, toUnloaded, fromFreed) ==
    [id |-> id, by |-> by, during |-> during, fin |-> fin,
     toUnloaded |-> toUnloaded, fromFreed |-> fromFreed]

Envelope(from, to, data, g) == [from |-> from, to |-> to, data |-> data, g |-> g]

NoEnvelope == Envelope(Endpoint(NULL, NULL), NULL, NoMsg, Note(0, NULL, 0, 0, FALSE, FALSE))

NoDispatch == [env |-> NoEnvelope, inv |-> <<>>, complete |-> FALSE]

(***************************************************************************)
(* What a step hands to the socket layer (dsmesock_broadcast_with_extra,   *)
(* dsmesock_send_with_extra), and what the call of a step returns.         *)
(***************************************************************************)
SockCall(fn, conn, msg, extra_size) ==
    [fn |-> fn, conn |-> conn, msg |-> msg, extra_size |-> extra_size]

NoSockCall == SockCall("", NULL, NoMsg, 0)

Returned(fn, val) == [fn |-> fn, val |-> val]

NoReturn == Returned("", 0)

(***************************************************************************)
(* Frames of the control stack.                                            *)
(***************************************************************************)
Frame(k, m, ph, node, failAt) ==
    [k |-> k, m |-> m, ph |-> ph, node |-> node, failAt |-> failAt]

Top(stk) == stk[Len(stk)]
Pop(stk) == SubSeq(stk, 1, Len(stk) - 1)
Push(stk, f) == Append(stk, f)

AtTopLevel == stack = <<>>
InCallback == stack # <<>> /\ Top(stack).k \in {"init", "fini", "handler"}
InInit == stack # <<>> /\ Top(stack).k = "init"
InHandler == stack # <<>> /\ Top(stack).k = "handler"
InShutdownFini ==
    stack # <<>> /\ Top(stack).k = "fini" /\ stack[1].k = "shutdown"
InitDepth == Cardinality({i \in 1 .. Len(stack) : stack[i].k = "init"})

\* the module whose callback is running, NULL outside callbacks
Caller == IF InCallback THEN Top(stack).m ELSE NULL

(***************************************************************************)
(* GLib's singly linked lists, as modulebase.c uses them.                  *)
(***************************************************************************)
\* g_slist_delete_link(list, node): the list without its i-th node
DeleteLink(list, i) == SubSeq(list, 1, i - 1) \o SubSeq(list, i + 1, Len(list))

\* g_slist_find(list, data): the index of the first node holding data, or 0
RECURSIVE SListFind(_, _, _)
SListFind(list, data, i) ==
    IF i > Len(list) THEN 0
    ELSE IF list[i] = data THEN i
    ELSE SListFind(list, data, i + 1)

(***************************************************************************)
(* msg_comparator: the difference of two u_int32_t.  The difference is     *)
(* taken modulo 2^32 and is 0 exactly when the two are equal; the types    *)
(* of the model are far below 2^31, where it is the plain difference.      *)
(***************************************************************************)
msg_comparator(handler, msg_type) == handler.msg_type - msg_type

\* g_slist_find_custom(node, id, msg_comparator): the first node from `node`
\* on for which msg_comparator returns 0, or 0 (a null node)
RECURSIVE FindCustom(_, _, _)
FindCustom(list, node, msg_type) ==
    IF node > Len(list) THEN 0
    ELSE IF msg_comparator(list[node], msg_type) = 0 THEN node
    ELSE FindCustom(list, node + 1, msg_type)

(***************************************************************************)
(* sort_comparator(handler, existing): 1 or 0.  hp is the heap in which    *)
(* the owners' priorities are read.                                        *)
(***************************************************************************)
sort_comparator(handler, existing, hp) ==
    IF handler.msg_type > existing.msg_type THEN 1
    ELSE IF handler.msg_type < existing.msg_type THEN 0
    ELSE IF hp[handler.owner].priority > hp[existing.owner].priority THEN 1
    ELSE 0

\* g_slist_insert_sorted_with_data(list, data, sort_comparator, 0): GLib walks
\* past every node for which the comparator returns > 0 and links data in
\* before the first node for which it does not (at the end if there is none)
RECURSIVE InsertSortedFrom(_, _, _, _)
InsertSortedFrom(list, data, i, hp) ==
    IF i > Len(list) THEN Append(list, data)
    ELSE IF sort_comparator(data, list[i], hp) > 0
         THEN InsertSortedFrom(list, data, i + 1, hp)
    ELSE SubSeq(list, 1, i - 1) \o <<data>> \o SubSeq(list, i, Len(list))

InsertSorted(list, data, hp) == InsertSortedFrom(list, data, 1, hp)

(***************************************************************************)
(* add_single_handler: the list with the new registration, or the list     *)
(* untouched with rc = -1 when malloc fails.                               *)
(***************************************************************************)
Handler(msg_type, msg_size, callback, owner) ==
    [msg_type |-> msg_type, msg_size |-> msg_size,
     owner |-> owner, callback |-> callback]

add_single_handler(list, msg_type, msg_size, callback, owner, malloc_ok, hp) ==
    IF ~malloc_ok THEN [cbs |-> list, rc |-> -1]
    ELSE [cbs |-> InsertSorted(list, Handler(msg_type, msg_size, callback, owner), hp),
          rc |-> 0]

(***************************************************************************)
(* add_msghandlers: registers the entries of the module's table in table   *)
(* order and stops at the first failure.  failAt is the entry whose malloc *)
(* fails (0: none).                                                        *)
(***************************************************************************)
RECURSIVE AddFrom(_, _, _, _, _, _)
AddFrom(list, table, i, module, failAt, hp) ==
    IF i > Len(table) THEN [cbs |-> list, rc |-> 0]
    ELSE LET r == add_single_handler(list, table[i].msg_type, table[i].msg_size,
                                     table[i].callback, module, i # failAt, hp)
         IN  IF r.rc # 0 THEN [cbs |-> r.cbs, rc |-> -1]
             ELSE AddFrom(r.cbs, table, i + 1, module, failAt, hp)

add_msghandlers(list, module, failAt, hp) ==
    AddFrom(list, ModuleImage(hp[module].name).handlers, 1, module, failAt, hp)

(***************************************************************************)
(* remove_msghandlers: walks the list once; next is taken before the node  *)
(* is deleted, so after a deletion the walk goes on at the same position.  *)
(***************************************************************************)
\* a walk that steps over the node after a deleted one (not the code's)
RECURSIVE RemoveSkipping(_, _, _)
RemoveSkipping(list, node, module) ==
    IF node > Len(list) THEN list
    ELSE IF list[node].owner = module
         THEN RemoveSkipping(DeleteLink(list, node), node + 1, module)
    ELSE RemoveSkipping(list, node + 1, module)

RECURSIVE RemoveFrom(_, _, _)
RemoveFrom(list, node, module) ==
    IF node > Len(list) THEN list
    ELSE IF list[node].owner = module
         THEN RemoveFrom(DeleteLink(list, node), node, module)
    ELSE RemoveFrom(list, node + 1, module)

remove_msghandlers(list, module) == RemoveFrom(list, 1, module)

(***************************************************************************)
(* queue_message: the queue after the call.  A null message, a message     *)
(* shorter than the header and a failed malloc leave it as it was.  The    *)
(* copy's line_size_ grows by extra_size.                                  *)
(***************************************************************************)
\* a test without the comparison with the header's size (not the code's)
AcceptsAnyLength(msg, malloc_ok) ==
    /\ msg # NoMsg
    /\ malloc_ok

Accepts(msg, malloc_ok) ==
    /\ msg # NoMsg
    /\ msg.line_size_ >= HeaderSize
    /\ malloc_ok

\* a queue_message that links the envelope in at the head (not the code's)
queue_message_at_head(queue, from, to, msg, extra_size, malloc_ok, g) ==
    IF Accepts(msg, malloc_ok)
    THEN <<Envelope(from, to,
                    [msg EXCEPT !.line_size_ = msg.line_size_ + extra_size], g)>>
         \o queue
    ELSE queue

\* a queue_message that leaves line_size_ as it was (not the code's)
queue_message_same_size(queue, from, to, msg, extra_size, malloc_ok, g) ==
    IF Accepts(msg, malloc_ok)
    THEN Append(queue, Envelope(from, to, msg, g))
    ELSE queue

queue_message(queue, from, to, msg, extra_size, malloc_ok, g) ==
    IF Accepts(msg, malloc_ok)
    THEN Append(queue,
                Envelope(from, to,
                         [msg EXCEPT !.line_size_ = msg.line_size_ + extra_size], g))
    ELSE queue

(***************************************************************************)
(* handle_message's tests on one node of the right type.                   *)
(***************************************************************************)
\* a recipient test that lets every owner through (not the code's)
AnyRecipient(to, handler) == to = NULL \/ handler.owner # NULL

ToMatches(to, handler) == to = NULL \/ to = handler.owner

\* a size test without the comparison of size_ (not the code's)
SizeAtLeast(msg, handler) == msg.line_size_ >= handler.msg_size

SizeMatches(msg, handler) ==
    /\ msg.line_size_ >= handler.msg_size
    /\ msg.size_ = handler.msg_size

Delivers(env, handler) ==
    /\ handler.callback # ""
    /\ ToMatches(env.to, handler)
    /\ SizeMatches(env.data, handler)

(***************************************************************************)
(* endpoint_same and endpoint_copy.  An endpoint_t* is <<>> for a null     *)
(* pointer and <<e>> for a pointer to the endpoint e.                      *)
(***************************************************************************)
\* a comparison of the module fields only (not the code's)
endpoint_same_module(a, b) ==
    /\ a # <<>>
    /\ b # <<>>
    /\ a[1].module # NULL
    /\ a[1].module = b[1].module

\* a comparison of the two fields without the tests for 0 (not the code's)
endpoint_same_fields(a, b) ==
    /\ a # <<>>
    /\ b # <<>>
    /\ \/ a[1].module = b[1].module
       \/ a[1].conn = b[1].conn

endpoint_same(a, b) ==
    /\ a # <<>>
    /\ b # <<>>
    /\ \/ (a[1].module # NULL /\ a[1].module = b[1].module)
       \/ (a[1].conn # NULL /\ a[1].conn = b[1].conn)

endpoint_copy(endpoint, malloc_ok) ==
    IF endpoint # <<>> /\ malloc_ok THEN endpoint ELSE <<>>

(***************************************************************************)
(* The program state as one record, so that the framework's functions are  *)
(* operators from state to state.  A step starts with nothing handed to    *)
(* the socket layer and nothing returned.                                  *)
(***************************************************************************)
State ==
    [modules |-> modules, callbacks |-> callbacks, message_queue |-> message_queue,
     currently_handling_module |-> currently_handling_module, heap |-> heap,
     stack |-> stack, disp |-> disp, unloaded |-> unloaded, nloads |-> nloads,
     nregs |-> nregs, nqueued |-> nqueued, npopped |-> npopped,
     sock |-> NoSockCall, ret |-> NoReturn, kept |-> kept]

SetTop(stk, f) == Push(Pop(stk), f)

\* free(module), in unload_module (unload) or on load_module's error path:
\* the envelopes that still point at the module are noted
MarkGone(env, module, unload) ==
    [env EXCEPT !.g.toUnloaded = @ \/ (unload /\ env.to = module),
                !.g.fromFreed = @ \/ env.from.module = module]

RECURSIVE MarkAllGone(_, _, _)
MarkAllGone(queue, module, unload) ==
    IF queue = <<>> THEN <<>>
    ELSE <<MarkGone(Head(queue), module, unload)>>
         \o MarkAllGone(Tail(queue), module, unload)

Release(st, module, unload) ==
    [st EXCEPT !.heap[module] = FreeModule,
               !.unloaded = IF unload THEN @ \cup {module} ELSE @,
               !.message_queue = MarkAllGone(@, module, unload)]

(***************************************************************************)
(* load_module                                                             *)
(***************************************************************************)
\* an error path that frees the module without remove_msghandlers (not the
\* code's)
FinishLoadNoRollback(st, module, failAt) ==
    LET r == add_msghandlers(st.callbacks, module, failAt, st.heap) IN
    IF r.rc = 0
    THEN [st EXCEPT !.callbacks = r.cbs, !.modules = Append(@, module),
                    !.ret = Returned("load_module", module)]
    ELSE Release([st EXCEPT !.callbacks = r.cbs,
                            !.ret = Returned("load_module", NULL)],
                 module, FALSE)

\* from add_msghandlers to the return: the module is appended to modules,
\* or, when a registration failed, its registrations are removed again and
\* the module is freed
FinishLoad(st, module, failAt) ==
    LET r == add_msghandlers(st.callbacks, module, failAt, st.heap) IN
    IF r.rc = 0
    THEN [st EXCEPT !.callbacks = r.cbs, !.modules = Append(@, module),
                    !.ret = Returned("load_module", module)]
    ELSE Release([st EXCEPT !.callbacks = remove_msghandlers(r.cbs, module),
                            !.ret = Returned("load_module", NULL)],
                 module, FALSE)

\* the call up to the point where module_init runs with the slot set to the
\* module (or, without a module_init, to the return)
load_module(st, name, priority, failAt) ==
    LET module == Malloc(st.heap)
        s1 == [st EXCEPT !.heap[module] = NewModule(name, priority),
                         !.unloaded = @ \ {module},
                         !.nloads = @ + 1]
    IN  IF ModuleImage(name).init
        THEN [s1 EXCEPT !.currently_handling_module = module,
                        !.stack = Push(@, Frame("init", module, "", 0, failAt))]
        ELSE FinishLoad(s1, module, failAt)

\* module_init returns: the slot is cleared and the load goes on
InitReturns(st) ==
    FinishLoad([st EXCEPT !.currently_handling_module = NULL, !.stack = Pop(@)],
               Top(st.stack).m, Top(st.stack).failAt)

(***************************************************************************)
(* unload_module                                                           *)
(***************************************************************************)
\* from the return of module_fini (or its absence) to the return
FinishUnload(st, module) ==
    Release([st EXCEPT !.currently_handling_module = NULL,
                       !.modules = DeleteLink(@, SListFind(@, module, 1)),
                       !.ret = Returned("unload_module", 0)],
            module, TRUE)

\* an unload that leaves the module's registrations in callbacks (not the
\* code's)
unload_keeping_handlers(st, module) ==
    IF SListFind(st.modules, module, 1) = 0
    THEN [st EXCEPT !.ret = Returned("unload_module", -1)]
    ELSE IF ModuleImage(st.heap[module].name).fini
    THEN [st EXCEPT !.currently_handling_module = module,
                    !.stack = Push(@, Frame("fini", module, "", 0, 0))]
    ELSE FinishUnload(st, module)

\* the call up to the point where module_fini runs with the slot set to the
\* module (or to the return); -1 and no change when the module is not found
unload_module(st, module) ==
    IF SListFind(st.modules, module, 1) = 0
    THEN [st EXCEPT !.ret = Returned("unload_module", -1)]
    ELSE LET s1 == [st EXCEPT !.callbacks = remove_msghandlers(@, module)] IN
         IF ModuleImage(st.heap[module].name).fini
         THEN [s1 EXCEPT !.currently_handling_module = module,
                         !.stack = Push(@, Frame("fini", module, "", 0, 0))]
         ELSE FinishUnload(s1, module)

FiniReturns(st) == FinishUnload([st EXCEPT !.stack = Pop(@)], Top(st.stack).m)

(***************************************************************************)
(* process_message_queue and handle_message                                *)
(***************************************************************************)
process_message_queue(st) ==
    [st EXCEPT !.stack = Push(@, Frame("drain", NULL, "loop", 0, 0))]

\* while (message_queue): the head is unlinked and handle_message starts at
\* the head of callbacks; with an empty queue the function returns
WhileMessageQueue(st) ==
    IF st.message_queue = <<>>
    THEN [st EXCEPT !.stack = Pop(@), !.disp = NoDispatch]
    ELSE [st EXCEPT !.disp = [env |-> Head(st.message_queue), inv |-> <<>>,
                              complete |-> FALSE],
                    !.message_queue = Tail(@),
                    !.npopped = @ + 1,
                    !.stack = SetTop(@, Frame("drain", NULL, "dispatch", 1, 0))]

\* one turn of handle_message's loop: the next node of the message's type
\* is found; if there is none handle_message returns; if the node's tests
\* pass its callback is called with the slot set to its owner; otherwise
\* the loop goes to the next node
handle_message(st) ==
    LET node == FindCustom(st.callbacks, Top(st.stack).node, st.disp.env.data.type_) IN
    IF node = 0
    THEN [st EXCEPT !.stack = SetTop(@, Frame("drain", NULL, "handled", 0, 0)),
                    !.disp.complete = TRUE]
    ELSE IF Delivers(st.disp.env, st.callbacks[node])
    THEN [st EXCEPT !.currently_handling_module = st.callbacks[node].owner,
                    !.disp.inv = Append(@, node),
                    !.stack = Push(SetTop(@, Frame("drain", NULL, "dispatch", node, 0)),
                                   Frame("handler", st.callbacks[node].owner, "", 0, 0))]
    ELSE [st EXCEPT !.stack = SetTop(@, Frame("drain", NULL, "dispatch", node + 1, 0))]

\* the callback returns: the slot is cleared, the loop goes to the next node
HandlerReturns(st) ==
    LET below == Pop(st.stack) IN
    [st EXCEPT !.currently_handling_module = NULL,
               !.stack = SetTop(below, Frame("drain", NULL, "dispatch",
                                             Top(below).node + 1, 0))]

\* a loop that returns after its first message (not the code's)
ReturnAfterOne(st) == [st EXCEPT !.stack = Pop(@), !.disp = NoDispatch]

\* handle_message has returned: the message and the envelope are freed
MessageFreed(st) ==
    [st EXCEPT !.stack = SetTop(@, Frame("drain", NULL, "loop", 0, 0))]

(***************************************************************************)
(* modulebase_shutdown; the daemon exits when it has returned.             *)
(***************************************************************************)
modulebase_shutdown(st) ==
    [st EXCEPT !.stack = Push(@, Frame("shutdown", NULL, "loop", 0, 0))]

\* a shutdown without the process_message_queue() after the loop (not the
\* code's)
ShutdownNoLastDrain(st) ==
    IF st.modules # <<>>
    THEN process_message_queue(
             [st EXCEPT !.stack = SetTop(@, Frame("shutdown", NULL, "unload", 0, 0))])
    ELSE [st EXCEPT !.stack = SetTop(@, Frame("shutdown", NULL, "final", 0, 0))]

\* while (modules) { process_message_queue(); ...  and, after the loop, the
\* last process_message_queue()
ShutdownLoop(st) ==
    process_message_queue(
        [st EXCEPT !.stack = SetTop(@, Frame("shutdown", NULL,
                                             IF st.modules # <<>> THEN "unload"
                                             ELSE "final", 0, 0)),
                   !.ret = NoReturn])

\* ... unload_module((module_t*)modules->data); }
ShutdownUnload(st) ==
    unload_module([st EXCEPT !.stack = SetTop(@, Frame("shutdown", NULL, "loop", 0, 0))],
                  Head(st.modules))

ShutdownReturns(st) ==
    [st EXCEPT !.stack = <<Frame("exit", NULL, "", 0, 0)>>,
               !.ret = Returned("modulebase_shutdown", 0)]

(***************************************************************************)
(* Framework code runs on until a callback is entered, a message has been  *)
(* handled, or the outermost call returns.                                 *)
(***************************************************************************)
Stable(st) ==
    \/ st.stack = <<>>
    \/ Top(st.stack).k \in {"init", "fini", "handler", "exit"}
    \/ Top(st.stack).k = "drain" /\ Top(st.stack).ph = "handled"

Step(st) ==
    LET f == Top(st.stack) IN
    CASE f.k = "drain" /\ f.ph = "loop" -> WhileMessageQueue(st)
      [] f.k = "drain" /\ f.ph = "dispatch" -> handle_message(st)
      [] f.k = "shutdown" /\ f.ph = "loop" -> ShutdownLoop(st)
      [] f.k = "shutdown" /\ f.ph = "unload" -> ShutdownUnload(st)
      [] f.k = "shutdown" /\ f.ph = "final" -> ShutdownReturns(st)

RECURSIVE Run(_)
Run(st) == IF Stable(st) THEN st ELSE Run(Step(st))

\* the next state: st after the framework code has run on
Becomes(st) ==
    \E r \in {Run(st)} :
    /\ modules' = r.modules
    /\ callbacks' = r.callbacks
    /\ message_queue' = r.message_queue
    /\ currently_handling_module' = r.currently_handling_module
    /\ heap' = r.heap
    /\ stack' = r.stack
    /\ disp' = r.disp
    /\ unloaded' = r.unloaded
    /\ nloads' = r.nloads
    /\ nregs' = r.nregs
    /\ nqueued' = r.nqueued
    /\ npopped' = r.npopped
    /\ sock' = r.sock
    /\ ret' = r.ret
    /\ kept' = r.kept

(***************************************************************************)
(* The initial state: nothing loaded, nothing registered, nothing queued.  *)
(***************************************************************************)
Init ==
    /\ modules = <<>>
    /\ callbacks = <<>>
    /\ message_queue = <<>>
    /\ currently_handling_module = NULL
    /\ heap = [a \in Addr |-> FreeModule]
    /\ stack = <<>>
    /\ disp = NoDispatch
    /\ unloaded = {}
    /\ nloads = 0
    /\ nregs = 0
    /\ nqueued = 0
    /\ npopped = 0
    /\ sock = NoSockCall
    /\ ret = NoReturn
    /\ kept = <<>>

(***************************************************************************)
(* Calls of load_module and unload_module.  load_module is called by the   *)
(* daemon, or by a module from its module_init.                            *)
(***************************************************************************)
CanLoad == (AtTopLevel \/ (InInit /\ InitDepth < MaxDepth)) /\ nloads < MaxLoads

LoadModule(name, priority, failAt) ==
    /\ CanLoad
    /\ Malloc(heap) # NULL
    /\ failAt \in 0 .. Len(ModuleImage(name).handlers)
    /\ Becomes(load_module(State, name, priority, failAt))

\* dlopen fails, or malloc of the module_t or strdup of its name fails:
\* nothing was registered, the call returns 0
LoadModuleError(reason) ==
    /\ CanLoad
    /\ reason \in {"dlopen", "malloc", "strdup"}
    /\ Becomes([State EXCEPT !.ret = Returned("load_module", NULL)])

InitReturn ==
    /\ InInit
    /\ Becomes(InitReturns(State))

UnloadModule(module) ==
    /\ AtTopLevel
    /\ Becomes(unload_module(State, module))

FiniReturn ==
    /\ stack # <<>>
    /\ Top(stack).k = "fini"
    /\ Becomes(FiniReturns(State))

(***************************************************************************)
(* add_single_handler, called by the daemon for a loaded module            *)
(***************************************************************************)
AddSingleHandler(msg_type, msg_size, owner, malloc_ok) ==
    /\ AtTopLevel
    /\ nregs < MaxRegs
    /\ SListFind(modules, owner, 1) # 0
    /\ LET r == add_single_handler(callbacks, msg_type, msg_size, "x", owner,
                                   malloc_ok, heap)
       IN  Becomes([State EXCEPT !.callbacks = r.cbs,
                                 !.nregs = IF r.rc = 0 THEN @ + 1 ELSE @,
                                 !.ret = Returned("add_single_handler", r.rc)])

(***************************************************************************)
(* The queueing functions.  The daemon and the socket layer call them      *)
(* outside any callback; module code calls them from its callbacks.        *)
(***************************************************************************)
CanQueue == AtTopLevel \/ InCallback

\* fewer than n envelopes have been queued
Below(n) == nqueued < n

\* a call of queue_message
Queue(from, to, msg, extra_size, malloc_ok) ==
    [State EXCEPT
        !.message_queue =
            queue_message(@, from, to, msg, extra_size, malloc_ok,
                          Note(nqueued + 1, Caller,
                               IF InHandler THEN disp.env.g.id ELSE 0,
                               IF InShutdownFini THEN Len(modules) ELSE 0,
                               to \in unloaded,
                               from.module # NULL /\ ~heap[from.module].alloc)),
        !.nqueued = IF Accepts(msg, malloc_ok) THEN @ + 1 ELSE @]

broadcast_internally(msg, malloc_ok) ==
    /\ CanQueue
    /\ Becomes(Queue(Endpoint(currently_handling_module, NULL), NULL, msg, 0,
                     malloc_ok))

broadcast_internally_from_socket(msg, conn, malloc_ok) ==
    /\ AtTopLevel
    /\ Becomes(Queue(Endpoint(NULL, conn), NULL, msg, 0, malloc_ok))

\* broadcast(msg) is broadcast_with_extra(msg, 0, 0)
broadcast_with_extra(msg, extra_size, malloc_ok) ==
    /\ CanQueue
    /\ Becomes([Queue(Endpoint(currently_handling_module, NULL), NULL, msg,
                      extra_size, malloc_ok)
                   EXCEPT !.sock = SockCall("dsmesock_broadcast_with_extra", NULL,
                                            msg, extra_size)])

queue_for_module_with_extra(recipient, msg, extra_size, malloc_ok) ==
    Queue(Endpoint(currently_handling_module, NULL), recipient, msg, extra_size,
          malloc_ok)

\* the endpoints module code can hold: of a module that is loaded or was
\* unloaded, of a connection, or empty
Endpoints ==
    {Endpoint(m, NULL) : m \in Allocated(heap) \cup unloaded}
        \cup {Endpoint(NULL, c) : c \in Conns}
        \cup {Endpoint(NULL, NULL)}

\* an endpoint_send_with_extra that queues whatever the recipient is (not
\* the code's)
endpoint_send_queueing(recipient, msg, extra_size, malloc_ok) ==
    /\ CanQueue
    /\ IF recipient # <<>>
       THEN Becomes(queue_for_module_with_extra(recipient[1].module, msg,
                                                extra_size, malloc_ok))
       ELSE Becomes(State)

\* endpoint_send(recipient, msg) is endpoint_send_with_extra(recipient, msg, 0, 0);
\* recipient is <<>> for a null pointer and <<e>> for a pointer to endpoint e
endpoint_send_with_extra(recipient, msg, extra_size, malloc_ok) ==
    /\ CanQueue
    /\ IF recipient # <<>> /\ recipient[1].module # NULL
       THEN Becomes(queue_for_module_with_extra(recipient[1].module, msg,
                                                extra_size, malloc_ok))
       ELSE IF recipient # <<>> /\ recipient[1].conn # NULL
       THEN Becomes([State EXCEPT
                        !.sock = SockCall("dsmesock_send_with_extra",
                                          recipient[1].conn, msg, extra_size)])
       ELSE Becomes(State)

(***************************************************************************)
(* A handler copies the sender it was called with, and compares the        *)
(* sender it was called with to the copy it holds.                         *)
(***************************************************************************)
EndpointCopy(malloc_ok) ==
    /\ InHandler
    /\ Becomes([State EXCEPT !.kept = endpoint_copy(<<disp.env.from>>, malloc_ok),
                             !.ret = Returned("endpoint_copy",
                                              IF malloc_ok THEN 1 ELSE NULL)])

EndpointSame ==
    /\ InHandler
    /\ Becomes([State EXCEPT
                   !.ret = Returned("endpoint_same",
                                    IF endpoint_same(kept, <<disp.env.from>>)
                                    THEN 1 ELSE 0)])

(***************************************************************************)
(* Calls of process_message_queue and modulebase_shutdown by the daemon,   *)
(* and the returns of the message handlers.                                *)
(***************************************************************************)
ProcessMessageQueue ==
    /\ AtTopLevel
    /\ Becomes(process_message_queue(State))

HandlerReturn ==
    /\ stack # <<>>
    /\ Top(stack).k = "handler"
    /\ Becomes(HandlerReturns(State))

FreeMessage ==
    /\ stack # <<>>
    /\ Top(stack).k = "drain"
    /\ Becomes(MessageFreed(State))

ModulebaseShutdown ==
    /\ AtTopLevel
    /\ Becomes(modulebase_shutdown(State))

(***************************************************************************)
(* The life-cycle specification: modules of both images and priorities     *)
(* are loaded (also from module_init), fail to load, are unloaded and shut *)
(* down, with one shape of message in the queue.                           *)
(***************************************************************************)
Next ==
    \/ \E name \in ModuleNames, priority \in Priorities :
          \E failAt \in 0 .. Len(ModuleImage(name).handlers) :
             LoadModule(name, priority, failAt)
    \/ \E reason \in {"dlopen", "malloc", "strdup"} : LoadModuleError(reason)
    \/ InitReturn
    \/ \E module \in Addr : UnloadModule(module)
    \/ FiniReturn
    \/ \E owner \in Addr, ok \in BOOLEAN :
          AddSingleHandler(16, HeaderSize, owner, ok)
    \/ \E msg \in Messages, ok \in BOOLEAN :
          Below(MaxMsgs) /\ broadcast_internally(msg, ok)
    \/ \E msg \in Messages, conn \in Conns, ok \in BOOLEAN :
          Below(MaxMsgs) /\ broadcast_internally_from_socket(msg, conn, ok)
    \/ \E mx \in WithExtra, ok \in BOOLEAN :
          Below(MaxMsgs) /\ broadcast_with_extra(mx[1], mx[2], ok)
    \/ \E e \in Endpoints, mx \in WithExtra, ok \in BOOLEAN :
          Below(MaxMsgs) /\ endpoint_send_with_extra(<<e>>, mx[1], mx[2], ok)
    \/ \E mx \in WithExtra, ok \in BOOLEAN :
          Below(MaxMsgs) /\ endpoint_send_with_extra(<<>>, mx[1], mx[2], ok)
    \/ ProcessMessageQueue
    \/ HandlerReturn
    \/ FreeMessage
    \/ ModulebaseShutdown

Spec == Init /\ [][Next]_vars

(***************************************************************************)
(* The dispatch specification: modules are loaded and stay loaded, and     *)
(* messages of every shape are queued and drained.                         *)
(***************************************************************************)
DispatchNext ==
    \/ \E name \in ModuleNames : LoadModule(name, 5, 0)
    \/ InitReturn
    \/ \E msg \in Shapes, ok \in BOOLEAN :
          Below(MaxMsgs) /\ broadcast_internally(msg, ok)
    \/ \E msg \in Shapes, conn \in Conns, ok \in BOOLEAN :
          Below(MaxMsgs) /\ broadcast_internally_from_socket(msg, conn, ok)
    \/ \E mx \in ShapesWithExtra, ok \in BOOLEAN :
          Below(MaxMsgs) /\ broadcast_with_extra(mx[1], mx[2], ok)
    \/ \E e \in Endpoints, mx \in ShapesWithExtra, ok \in BOOLEAN :
          Below(MaxMsgs) /\ endpoint_send_with_extra(<<e>>, mx[1], mx[2], ok)
    \/ \E mx \in ShapesWithExtra, ok \in BOOLEAN :
          Below(MaxMsgs) /\ endpoint_send_with_extra(<<>>, mx[1], mx[2], ok)
    \/ ProcessMessageQueue
    \/ HandlerReturn
    \/ FreeMessage

DispatchSpec == Init /\ [][DispatchNext]_vars

(***************************************************************************)
(* The queue specification: one module, one shape of message with or       *)
(* without an extra byte, and a longer run of queueing and draining.       *)
(***************************************************************************)
QueueNext ==
    \/ LoadModule("b", 5, 0)
    \/ \E msg \in Messages, ok \in BOOLEAN :
          Below(MaxQueued) /\ broadcast_internally(msg, ok)
    \/ \E msg \in Messages, extra_size \in {0, 1}, ok \in BOOLEAN :
          Below(MaxQueued) /\ broadcast_with_extra(msg, extra_size, ok)
    \/ \E e \in Endpoints, msg \in Messages, ok \in BOOLEAN :
          Below(MaxQueued) /\ endpoint_send_with_extra(<<e>>, msg, 1, ok)
    \/ ProcessMessageQueue
    \/ HandlerReturn
    \/ FreeMessage

QueueSpec == Init /\ [][QueueNext]_vars

(***************************************************************************)
(* The endpoint specification: messages come from two connections, from    *)
(* the daemon and from the callbacks of two modules; handlers copy their   *)
(* senders and compare them.                                               *)
(***************************************************************************)
EndpointNext ==
    \/ \E name \in ModuleNames : LoadModule(name, 5, 0)
    \/ InitReturn
    \/ Below(MaxQueued) /\ broadcast_internally(Msg(16, HeaderSize, HeaderSize), TRUE)
    \/ \E conn \in Peers :
          /\ Below(MaxQueued)
          /\ broadcast_internally_from_socket(Msg(16, HeaderSize, HeaderSize),
                                              conn, TRUE)
    \/ \E ok \in BOOLEAN : EndpointCopy(ok)
    \/ EndpointSame
    \/ ProcessMessageQueue
    \/ HandlerReturn
    \/ FreeMessage

EndpointSpec == Init /\ [][EndpointNext]_vars

(***************************************************************************)
(* The properties checked of the specifications above.                     *)
(***************************************************************************)
Nodes == 1 .. Len(callbacks)

\* the nodes whose callback has been called for the envelope in dispatch
Invoked == {disp.inv[i] : i \in 1 .. Len(disp.inv)}

PriorityOf(n) == heap[callbacks[n].owner].priority

\* the registration whose callback is running
Running == callbacks[disp.inv[Len(disp.inv)]]

DrainRunning == \E i \in 1 .. Len(stack) : stack[i].k = "drain"

\* C1: when a broadcast is drained, handlers of owners with different
\* priorities are invoked in strictly descending order of owner priority.
C1_PriorityFirstDelivery ==
    disp.env.to = NULL =>
        \A i, j \in 1 .. Len(disp.inv) :
            i < j /\ PriorityOf(disp.inv[i]) # PriorityOf(disp.inv[j])
                => PriorityOf(disp.inv[i]) > PriorityOf(disp.inv[j])

\* C2: outside the framework's own code the handler list is ordered by
\* message type descending and, within a type, by owner priority descending.
C2_RegistryOrderedDescending ==
    \A i, j \in Nodes :
        i < j =>
            \/ callbacks[i].msg_type > callbacks[j].msg_type
            \/ /\ callbacks[i].msg_type = callbacks[j].msg_type
               /\ PriorityOf(i) >= PriorityOf(j)

\* C3: for every envelope drained, a registration is invoked exactly once
\* if its type equals the message's, its size matches and the envelope is a
\* broadcast or addressed to its owner; no other registration is invoked.
Matching ==
    {n \in Nodes :
        /\ callbacks[n].msg_type = disp.env.data.type_
        /\ callbacks[n].msg_size = disp.env.data.size_
        /\ callbacks[n].msg_size <= disp.env.data.line_size_
        /\ disp.env.to \in {NULL, callbacks[n].owner}}

C3_AllAndOnlyMatching ==
    /\ Invoked \subseteq Matching
    /\ Cardinality(Invoked) = Len(disp.inv)
    /\ disp.complete => Invoked = Matching

\* a message sent to one module has been handled, and a registration of
\* another module for the same type and size was not invoked
C3_Witness ==
    /\ disp.complete
    /\ disp.env.to # NULL
    /\ Invoked # {}
    /\ \E n \in Nodes \ Invoked :
          /\ callbacks[n].owner # disp.env.to
          /\ callbacks[n].msg_type = disp.env.data.type_
          /\ callbacks[n].msg_size = disp.env.data.size_

\* C4: at every handler invocation the message's size_ equals the handler's
\* msg_size and its line_size_ is at least msg_size; a handled message was
\* given to a registration of its type and recipient exactly when both hold
\* (so line_size_ = msg_size - 1 is rejected, line_size_ = msg_size and
\* line_size_ = msg_size + N are accepted).
C4_SizeGuard ==
    /\ InHandler =>
          /\ disp.env.data.size_ = Running.msg_size
          /\ disp.env.data.line_size_ >= Running.msg_size
    /\ disp.complete =>
          \A n \in Nodes :
             /\ callbacks[n].msg_type = disp.env.data.type_
             /\ disp.env.to \in {NULL, callbacks[n].owner}
             => (n \in Invoked <=>
                    /\ disp.env.data.size_ = callbacks[n].msg_size
                    /\ disp.env.data.line_size_ >= callbacks[n].msg_size)

\* a message has been handled that one registration took and that another
\* of the same type and recipient refused for its size_, although its
\* line_size_ was large enough
C4_Witness ==
    /\ disp.complete
    /\ Invoked # {}
    /\ \E n \in Nodes \ Invoked :
          /\ callbacks[n].msg_type = disp.env.data.type_
          /\ disp.env.to \in {NULL, callbacks[n].owner}
          /\ disp.env.data.line_size_ >= callbacks[n].msg_size
          /\ disp.env.data.size_ # callbacks[n].msg_size

\* C5: whenever process_message_queue returns the queue is empty, and every
\* envelope queued so far, those queued by handlers during the call
\* included, has been dispatched.
C5_CascadeDrain ==
    [][(DrainRunning \/ ProcessMessageQueue) /\ ~DrainRunning'
          => message_queue' = <<>> /\ npopped' = nqueued']_vars

\* a handler runs for an envelope with an extra byte that a handler queued
\* earlier in the same call
C5_Witness ==
    /\ InHandler
    /\ disp.env.g.during # 0
    /\ disp.env.data.line_size_ > disp.env.data.size_

\* C6: envelopes are dispatched in the order they were queued: the queue
\* holds the envelopes not yet popped in the order of their numbers, and the
\* envelope in dispatch is the last one popped.
C6_FifoDispatch ==
    /\ Len(message_queue) = nqueued - npopped
    /\ \A i \in 1 .. Len(message_queue) : message_queue[i].g.id = npopped + i
    /\ DrainRunning => disp.env.g.id = npopped

\* a handler runs for an envelope that a handler queued while another
\* envelope was waiting in the queue
C6_Witness ==
    /\ InHandler
    /\ disp.env.g.id = 3
    /\ disp.env.g.during = 1

\* C7: the slot holds the module for the whole of its callback, and every
\* message queued from a callback has from = that module.
C7_SenderAttribution ==
    /\ InCallback => currently_handling_module = Top(stack).m
    /\ \A i \in 1 .. Len(message_queue) :
          message_queue[i].g.by # NULL
              => message_queue[i].from.module = message_queue[i].g.by

\* C8: every registration's owner is a loaded (or loading) module, and an
\* envelope addressed to a module that was unloaded invokes no handler.
C8_UnloadCutsOffDelivery ==
    /\ \A n \in Nodes : callbacks[n].owner \in Allocated(heap)
    /\ disp.env.g.toUnloaded => disp.inv = <<>>

\* C9: unload_module's call of remove_msghandlers removes exactly the
\* registrations of the module and leaves the others in their order.
C9_RemoveExactlyOwners ==
    [][\A module \in Addr :
          UnloadModule(module) /\ SListFind(modules, module, 1) # 0
              => callbacks' = SelectSeq(callbacks, LAMBDA h : h.owner # module)]_vars

\* module_fini of a module with three registrations runs: they were at the
\* head (two in a row) and at the tail of the list, around another module's,
\* which is still there
C9_Witness ==
    /\ stack # <<>>
    /\ Top(stack).k = "fini"
    /\ heap[Top(stack).m].name = "b"
    /\ callbacks # <<>>
    /\ \A n \in Nodes :
          /\ callbacks[n].owner # Top(stack).m
          /\ PriorityOf(n) > heap[Top(stack).m].priority
          /\ callbacks[n].msg_type = 16

\* C10: modulebase_shutdown returns, and when it has returned no module is
\* loaded, no handler is registered and no message is queued.  That it
\* returns is stated without fairness: while it runs, control is in a
\* callback or at the free of a handled message, so a step remains to be
\* taken; and every step that does not queue a message lowers WorkLeft,
\* which is well-founded, so only an endless cascade of messages could keep
\* it running.  (A step in which a callback only calls the socket layer, or
\* makes a call that changes nothing, is not a step of the shutdown.)
ShutdownRunning == stack # <<>> /\ stack[1].k = "shutdown"
ShutdownReturned == stack # <<>> /\ stack[1].k = "exit"

\* the state that modulebase_shutdown works on
work == <<modules, callbacks, message_queue, currently_handling_module, heap,
          stack, disp, unloaded, nloads, nregs, nqueued, npopped>>

\* the work left in a shutdown: the modules to unload (a drain comes before
\* each unload), the envelopes to dispatch, the nodes to visit for the
\* envelope in dispatch
WorkLeft ==
    <<2 * Len(modules) + (IF DrainRunning THEN 1 ELSE 0),
      Len(message_queue) + (IF DrainRunning THEN 1 ELSE 0),
      IF InHandler THEN Len(callbacks) - stack[Len(stack) - 1].node + 1 ELSE 0>>

\* the lexicographic order of triples of naturals
Less(v, w) ==
    \/ v[1] < w[1]
    \/ v[1] = w[1] /\ v[2] < w[2]
    \/ v[1] = w[1] /\ v[2] = w[2] /\ v[3] < w[3]

C10_ShutdownCompletesClean ==
    /\ [](ShutdownReturned =>
             modules = <<>> /\ callbacks = <<>> /\ message_queue = <<>>)
    /\ [](ShutdownRunning =>
             InCallback \/ (Top(stack).k = "drain" /\ Top(stack).ph = "handled"))
    /\ [][ShutdownRunning => nqueued' > nqueued \/ Less(WorkLeft', WorkLeft)]_work

\* modulebase_shutdown has returned in a run that loaded MaxLoads modules and
\* dispatched MaxMsgs messages
C10_Witness ==
    /\ ShutdownReturned
    /\ npopped = MaxMsgs
    /\ nloads = MaxLoads

\* the registrations owned by a module
OwnedBy(module) == {n \in Nodes : callbacks[n].owner = module}

\* the modules in the registry
Loaded == {modules[i] : i \in 1 .. Len(modules)}

\* C11: a broadcast queued by the module_fini of a module M during
\* modulebase_shutdown is dispatched before any further module is unloaded:
\* while it is queued at most M has left the registry, and when it is
\* dispatched M has left it and no other module has; M has no registration
\* then, the handlers invoked belong to modules still loaded, and once the
\* message is handled they are exactly the matching registrations.
C11_FiniBroadcastDelivery ==
    /\ \A i \in 1 .. Len(message_queue) :
          message_queue[i].g.fin > 0 =>
              /\ ShutdownRunning
              /\ Len(modules) >= message_queue[i].g.fin - 1
    /\ disp.env.g.fin > 0 /\ disp.env.to = NULL =>
          /\ ShutdownRunning
          /\ Len(modules) = disp.env.g.fin - 1
          /\ disp.env.g.by \notin Loaded
          /\ OwnedBy(disp.env.g.by) = {}
          /\ \A n \in Invoked : callbacks[n].owner \in Loaded
          /\ Invoked \subseteq Matching
          /\ disp.complete => Invoked = Matching

\* during shutdown a handler of a module that is still loaded runs for a
\* broadcast that the module_fini of the module unloaded before it queued
C11_Witness ==
    /\ ShutdownRunning
    /\ InHandler
    /\ disp.env.g.fin > 0
    /\ disp.env.to = NULL
    /\ disp.env.g.by # NULL
    /\ Running.owner \in Loaded

\* C12: a load_module that returns 0 leaves callbacks and modules exactly
\* as they were before the call's registrations: no registration of the
\* module remains, those added before the failing one included, the module
\* is not in the registry, and the registrations and modules that were
\* there before are unchanged and in their order.
C12_LoadRollback ==
    [][ret'.fn = "load_module" /\ ret'.val = NULL =>
          /\ callbacks' = callbacks
          /\ modules' = modules
          /\ \A a \in Addr :
                ~heap'[a].alloc => a \notin Loaded' /\ OwnedBy(a)' = {}]_vars

\* the last of MaxLoads calls has returned 0 after the module_t was
\* allocated, that is, because add_msghandlers failed (nloads counts the
\* calls that reached add_msghandlers or module_init), and the module
\* loaded before it and its registrations are there
C12_Witness ==
    /\ ret = Returned("load_module", NULL)
    /\ nloads = MaxLoads
    /\ Len(modules) = MaxLoads - 1
    /\ callbacks # <<>>
    /\ \E a \in Addr : ~heap[a].alloc

\* a call of one of the queueing functions with the message msg
Queueing(msg, malloc_ok) ==
    \/ broadcast_internally(msg, malloc_ok)
    \/ \E conn \in Conns : broadcast_internally_from_socket(msg, conn, malloc_ok)
    \/ \E extra_size \in {0, 1} : broadcast_with_extra(msg, extra_size, malloc_ok)
    \/ \E e \in Endpoints, extra_size \in {0, 1} :
          /\ e.module # NULL
          /\ endpoint_send_with_extra(<<e>>, msg, extra_size, malloc_ok)

\* C13: a call of a queueing function with a null message, with a message
\* whose line_size_ is less than the header's size, or with a failing
\* allocation leaves the queue exactly as it was and invokes no handler;
\* so every envelope queued or in dispatch holds a message of at least the
\* header's size.
C13_RejectedEnqueue ==
    /\ [](\A i \in 1 .. Len(message_queue) :
             /\ message_queue[i].data # NoMsg
             /\ message_queue[i].data.line_size_ >= HeaderSize)
    /\ [](disp.env # NoEnvelope => disp.env.data.line_size_ >= HeaderSize)
    /\ [][\A msg \in Shapes, malloc_ok \in BOOLEAN :
            /\ msg = NoMsg \/ msg.line_size_ < HeaderSize \/ ~malloc_ok
            /\ Queueing(msg, malloc_ok)
            => /\ message_queue' = message_queue
               /\ nqueued' = nqueued
               /\ stack' = stack
               /\ disp' = disp
               /\ currently_handling_module' = currently_handling_module]_vars

\* a handler of a loaded module has called broadcast_with_extra with a
\* message shorter than the header and one extra byte: the queue is empty
\* and the handler is still the one running
C13_Witness ==
    /\ InHandler
    /\ sock.fn = "dsmesock_broadcast_with_extra"
    /\ sock.msg # NoMsg
    /\ sock.msg.line_size_ < HeaderSize
    /\ sock.extra_size = 1
    /\ message_queue = <<>>

\* the last envelope of the queue
Last(queue) == queue[Len(queue)]

\* the queue after the step is the queue before it with one envelope at its
\* tail that holds msg with extra_size more bytes
Appended(from, to, msg, extra_size) ==
    /\ Len(message_queue') = Len(message_queue) + 1
    /\ SubSeq(message_queue', 1, Len(message_queue)) = message_queue
    /\ Last(message_queue').data.type_ = msg.type_
    /\ Last(message_queue').data.size_ = msg.size_
    /\ Last(message_queue').data.line_size_ = msg.line_size_ + extra_size
    /\ Last(message_queue').from = from
    /\ Last(message_queue').to = to

\* C14: a call with a message of total size T, declared size D and N extra
\* bytes that is not rejected appends exactly one envelope at the tail,
\* with total size T + N, declared size D, the message's type and the
\* given sender and recipient; the envelopes already queued are unchanged,
\* and the message handed on to the socket layer afterwards is the one
\* that was passed in.
C14_EnqueueWithExtra ==
    [][\A mx \in ShapesWithExtra :
          /\ mx[1] # NoMsg
          /\ mx[1].line_size_ >= HeaderSize
          => /\ broadcast_with_extra(mx[1], mx[2], TRUE) =>
                   /\ Appended(Endpoint(currently_handling_module, NULL), NULL,
                               mx[1], mx[2])
                   /\ sock'.msg = mx[1]
             /\ \A e \in Endpoints :
                   /\ e.module # NULL
                   /\ endpoint_send_with_extra(<<e>>, mx[1], mx[2], TRUE)
                   => Appended(Endpoint(currently_handling_module, NULL),
                               e.module, mx[1], mx[2])]_vars

\* broadcast_with_extra was called with one extra byte while an envelope
\* was waiting: the new envelope is behind it and one byte longer than the
\* message that was passed in
C14_Witness ==
    /\ sock.fn = "dsmesock_broadcast_with_extra"
    /\ sock.extra_size = 1
    /\ Len(message_queue) = 2
    /\ Last(message_queue).g.id > message_queue[1].g.id
    /\ Last(message_queue).data.line_size_ = sock.msg.line_size_ + 1
    /\ Last(message_queue).data.size_ = sock.msg.size_

\* a step that leaves the queue and the dispatch in progress as they are
NothingQueued ==
    /\ message_queue' = message_queue
    /\ nqueued' = nqueued
    /\ stack' = stack
    /\ disp' = disp
    /\ currently_handling_module' = currently_handling_module

\* C15: endpoint_send_with_extra to an endpoint of a module only queues the
\* message, addressed to that module, and hands nothing to the socket
\* layer; to an endpoint of a connection it hands the message to the socket
\* layer for that connection and leaves the queue unchanged; to an empty
\* endpoint or a null pointer it does nothing.  No step that queues a
\* message enters or leaves a callback or moves the dispatch in progress.
C15_EndpointRouting ==
    [][/\ \A mx \in ShapesWithExtra, malloc_ok \in BOOLEAN :
            /\ \A e \in Endpoints :
                  endpoint_send_with_extra(<<e>>, mx[1], mx[2], malloc_ok) =>
                      IF e.module # NULL
                      THEN /\ sock' = NoSockCall
                           /\ IF Accepts(mx[1], malloc_ok)
                              THEN Appended(Endpoint(currently_handling_module, NULL),
                                            e.module, mx[1], mx[2])
                              ELSE NothingQueued
                      ELSE IF e.conn # NULL
                      THEN /\ sock' = SockCall("dsmesock_send_with_extra", e.conn,
                                               mx[1], mx[2])
                           /\ NothingQueued
                      ELSE sock' = NoSockCall /\ NothingQueued
            /\ endpoint_send_with_extra(<<>>, mx[1], mx[2], malloc_ok) =>
                  sock' = NoSockCall /\ NothingQueued
       /\ nqueued' # nqueued =>
            /\ stack' = stack
            /\ disp' = disp
            /\ currently_handling_module' = currently_handling_module]_vars

\* a handler has sent a message to the endpoint of a connection: the socket
\* layer has it, the queue is empty and the handler still runs
C15_Witness ==
    /\ InHandler
    /\ sock.fn = "dsmesock_send_with_extra"
    /\ sock.conn \in Conns
    /\ sock.msg # NoMsg
    /\ message_queue = <<>>

\* the envelopes queued and the one in dispatch
Envelopes ==
    {message_queue[i] : i \in 1 .. Len(message_queue)}
        \cup (IF disp.env # NoEnvelope THEN {disp.env} ELSE {})

IsModule(e) == e.module # NULL /\ e.conn = NULL
IsConn(e) == e.module = NULL /\ e.conn # NULL
IsEmpty(e) == e.module = NULL /\ e.conn = NULL

\* C16 as stated: endpoint_same(a, a) is true of the sender endpoint of
\* every envelope that is handed to a handler, a broadcast made outside any
\* callback included.
C16_SameIsReflexive ==
    InHandler => endpoint_same(<<disp.env.from>>, <<disp.env.from>>)

\* C16, amended: endpoint_same(a, a) is true of the sender endpoint of an
\* envelope handed to a handler, and of an endpoint module code holds,
\* exactly if the endpoint denotes a module or a connection; for the empty
\* endpoint, which is the sender of a broadcast made while
\* currently_handling_module is 0, it is false.
C16_SameIsReflexiveUnlessEmpty ==
    /\ InHandler =>
          (endpoint_same(<<disp.env.from>>, <<disp.env.from>>)
              <=> ~IsEmpty(disp.env.from))
    /\ \A e \in Endpoints : endpoint_same(<<e>>, <<e>>) <=> ~IsEmpty(e)
    /\ \A env \in Envelopes :
          env.g.by = NULL /\ env.from.conn = NULL => IsEmpty(env.from)

\* a handler runs for a message that came from a connection, and one for
\* a message that a module's callback queued: either sender is the same as
\* itself
C16_Witness ==
    /\ InHandler
    /\ ~IsEmpty(disp.env.from)
    /\ endpoint_same(<<disp.env.from>>, <<disp.env.from>>)
    /\ \E env \in Envelopes :
          IsModule(env.from) /\ endpoint_same(<<env.from>>, <<env.from>>)
    /\ \E env \in Envelopes :
          IsConn(env.from) /\ endpoint_same(<<env.from>>, <<env.from>>)

\* both endpoints denote the same module, or both the same connection
SameTarget(a, b) ==
    \/ IsModule(a) /\ IsModule(b) /\ a.module = b.module
    \/ IsConn(a) /\ IsConn(b) /\ a.conn = b.conn

\* the endpoint a handler holds and the sender it was called with are
\* compared as the claim says
SameAsClaimed ==
    /\ kept # <<>> /\ InHandler =>
          (endpoint_same(kept, <<disp.env.from>>)
              <=> SameTarget(kept[1], disp.env.from))
    /\ InHandler => ~endpoint_same(<<>>, <<disp.env.from>>)
    /\ ret.fn = "endpoint_same" /\ kept # <<>> =>
          (ret.val = 1 <=> SameTarget(kept[1], disp.env.from))

\* C17 as stated: endpoint_same(a, b) is true iff both denote the same
\* module or both the same connection, and every endpoint the core
\* constructs denotes a module or a connection but never both.
C17_SameIffSameTarget ==
    /\ SameAsClaimed
    /\ \A env \in Envelopes : IsModule(env.from) \/ IsConn(env.from)

\* C17, amended: endpoint_same(a, b) is true iff both denote the same
\* module or both the same connection (so it is false for a module and a
\* connection, and false if either is empty or a null pointer), and every
\* endpoint the core constructs denotes a module, a connection or neither,
\* but never both.
C17_SameIffSameTargetOrEmpty ==
    /\ SameAsClaimed
    /\ \A env \in Envelopes :
          IsModule(env.from) \/ IsConn(env.from) \/ IsEmpty(env.from)

\* a handler that holds the endpoint of one connection has compared it
\* with its sender, another connection, and got false
C17_Witness ==
    /\ InHandler
    /\ ret = Returned("endpoint_same", 0)
    /\ kept # <<>>
    /\ IsConn(kept[1])
    /\ IsConn(disp.env.from)
    /\ kept[1].conn # disp.env.from.conn

\* the place of a registration in its owner's message_handlers table; a
\* registration made by add_single_handler after the load comes after them
RECURSIVE TableIndexFrom(_, _, _)
TableIndexFrom(table, callback, i) ==
    IF i > Len(table) \/ table[i].callback = callback THEN i
    ELSE TableIndexFrom(table, callback, i + 1)

TableIndex(handler) ==
    TableIndexFrom(ModuleImage(heap[handler.owner].name).handlers,
                   handler.callback, 1)

\* handler g was registered before handler h: by the same owner earlier in
\* its table (or from the table and not by a later add_single_handler), or
\* from the table of a module whose load_module registered first (modules
\* is in the order in which the loads registered their tables)
RegisteredBefore(g, h) ==
    IF g.owner = h.owner
    THEN TableIndex(g) < TableIndex(h)
    ELSE /\ g.callback # "x"
         /\ h.callback # "x"
         /\ SListFind(modules, g.owner, 1) < SListFind(modules, h.owner, 1)

\* C18: among registrations of equal msg_type and equal owner priority,
\* one that was registered earlier precedes one that was registered later
\* in callbacks, and so is invoked earlier for the same message.
C18_StableTieBreak ==
    /\ \A i, j \in Nodes :
          /\ i < j
          /\ callbacks[i].msg_type = callbacks[j].msg_type
          /\ PriorityOf(i) = PriorityOf(j)
          => ~RegisteredBefore(callbacks[j], callbacks[i])
    /\ \A k, l \in 1 .. Len(disp.inv) :
          /\ k < l
          /\ PriorityOf(disp.inv[k]) = PriorityOf(disp.inv[l])
          => ~RegisteredBefore(callbacks[disp.inv[l]], callbacks[disp.inv[k]])

\* C19: a handler that is called with a sender of module kind is called
\* while that module is in modules, and no envelope, queued or in dispatch,
\* has a sender or a recipient that points at a module_t that was unloaded
\* and freed.
C19_LiveSender ==
    /\ InHandler /\ disp.env.from.module # NULL =>
          disp.env.from.module \in Loaded /\ ~disp.env.g.fromFreed
    /\ \A env \in Envelopes : ~env.g.fromFreed /\ ~env.g.toUnloaded

\* C20: when no allocation fails, a call of broadcast_with_extra hands the
\* message to the socket layer if and only if it appends an envelope for
\* it to message_queue; a null message or one shorter than the header is
\* not handed to the socket layer.
C20_FanOutAgree ==
    [][\A mx \in ShapesWithExtra :
          broadcast_with_extra(mx[1], mx[2], TRUE) =>
              (sock'.fn = "dsmesock_broadcast_with_extra"
                  <=> nqueued' = nqueued + 1)]_vars

====
